---- MODULE Spec2Model ----
(***************************************************************************)
(* The tutorial script sequence_models_PyTorch.py as a state machine: the  *)
(* vocabulary scan, the LSTMTagger (construction, evaluation, 300 training *)
(* epochs, evaluation) and the LSTMTaggerWithChar (the same).              *)
(*                                                                         *)
(* Tensors are symbolic.  A parameter value is the number of SGD updates   *)
(* applied to it since construction.  A recurrent hidden state is the list *)
(* of (parameters, input) pairs the LSTM has consumed since the state was  *)
(* last set to zeros, so the zero state is the empty list and two hidden   *)
(* states are equal exactly when they were produced by the same inputs.    *)
(* Tag scores are the term (parameters, entry hidden state, input); a      *)
(* gradient is the list of losses back-propagated since it was cleared.    *)
(* A word is the tuple of its characters, so that "The" and "the" differ   *)
(* and a word can be read character by character.                          *)
(* The opening nn.LSTM demonstration (lines 35-61) shares no state with    *)
(* the rest of the script and is left out.                                 *)
(***************************************************************************)
EXTENDS Integers, Sequences, FiniteSets, TLC

VARIABLES
    pc,             \* the statement the script executes next
    raised,         \* the exception that ended the script, or "None"
    training_data,  \* the list of (sentence, tags) pairs
    word_to_ix,     \* the word vocabulary (a dict)
    si, wi,         \* position of the vocabulary scan (sentence, word)
    epoch, pair,    \* position of the running training loop
    log,            \* the pairs the optimizer has stepped on in this epoch
    model,          \* the LSTMTagger object
    model2,         \* the LSTMTaggerWithChar object
    optimizer,      \* the model whose parameters the optimizer holds
    inputs,         \* script global: inputs
    sentence_in,    \* script global: sentence_in
    inputs_W,       \* script global: inputs_W
    inputs_C,       \* script global: inputs_C
    targets,        \* script global: targets
    tag_scores,     \* script global: tag_scores
    loss,           \* script global: loss
    ListWCs,        \* the character vectors of the last LSTMTaggerWithChar.forward
    printed         \* number of tag_scores tensors printed so far

vars == <<pc, raised, training_data, word_to_ix, si, wi, epoch, pair, log,
          model, model2, optimizer, inputs, sentence_in, inputs_W, inputs_C,
          targets, tag_scores, loss, ListWCs, printed>>

scanVars  == <<word_to_ix, si, wi>>
loopVars  == <<epoch, pair, log>>
modelVars == <<model, model2, optimizer>>
dataVars  == <<inputs, sentence_in, inputs_W, inputs_C, targets>>
outVars   == <<tag_scores, loss, ListWCs, printed>>

(***************************************************************************)
(* The fixed data of the script.                                           *)
(***************************************************************************)
Range(s) == {s[i] : i \in DOMAIN s}

w_The       == <<"T", "h", "e">>
w_dog       == <<"d", "o", "g">>
w_ate       == <<"a", "t", "e">>
w_the       == <<"t", "h", "e">>
w_apple     == <<"a", "p", "p", "l", "e">>
w_Everybody == <<"E", "v", "e", "r", "y", "b", "o", "d", "y">>
w_read      == <<"r", "e", "a", "d">>
w_that      == <<"t", "h", "a", "t">>
w_book      == <<"b", "o", "o", "k">>

TrainingData ==
    << << <<w_The, w_dog, w_ate, w_the, w_apple>>,
          <<"DET", "NN", "V", "DET", "NN">> >>,
       << <<w_Everybody, w_read, w_that, w_book>>,
          <<"NN", "V", "DET", "NN">> >> >>

tag_to_ix == ("DET" :> 0) @@ ("NN" :> 1) @@ ("V" :> 2)

ascii_lowercase ==
    <<"a", "b", "c", "d", "e", "f", "g", "h", "i", "j", "k", "l", "m",
      "n", "o", "p", "q", "r", "s", "t", "u", "v", "w", "x", "y", "z">>

ascii_uppercase ==
    <<"A", "B", "C", "D", "E", "F", "G", "H", "I", "J", "K", "L", "M",
      "N", "O", "P", "Q", "R", "S", "T", "U", "V", "W", "X", "Y", "Z">>

Alphabet_LowercaseOnly == ascii_lowercase

Alphabet == ascii_lowercase \o ascii_uppercase

Char_Size == Len(Alphabet)

Char_to_ix == [ch \in Range(Alphabet) |-> (CHOOSE i \in DOMAIN Alphabet : Alphabet[i] = ch) - 1]

NumEpochs_OneLess == 300 - 1

NumEpochs == 300

NumEpochs2 == 300

len(d) == Cardinality(DOMAIN d)

(***************************************************************************)
(* prepare_sequence and prepare_char_squence.  A lookup of a token that    *)
(* is no key of the dict raises KeyError out of the comprehension, so the  *)
(* call returns nothing.                                                   *)
(***************************************************************************)
prepare_sequence_Default(seq, to_ix) ==
    [raised |-> FALSE,
     val |-> [i \in DOMAIN seq |-> IF seq[i] \in DOMAIN to_ix THEN to_ix[seq[i]] ELSE 0]]

prepare_sequence(seq, to_ix) ==
    IF \A i \in DOMAIN seq : seq[i] \in DOMAIN to_ix
    THEN [raised |-> FALSE, val |-> [i \in DOMAIN seq |-> to_ix[seq[i]]]]
    ELSE [raised |-> TRUE, val |-> <<>>]

prepare_char_squence(seq, to_ix) ==
    IF \A k \in DOMAIN seq : \A j \in DOMAIN seq[k] : seq[k][j] \in DOMAIN to_ix
    THEN [raised |-> FALSE,
          val |-> [k \in DOMAIN seq |-> [j \in DOMAIN seq[k] |-> to_ix[seq[k][j]]]]]
    ELSE [raised |-> TRUE, val |-> <<>>]

(***************************************************************************)
(* The vocabulary scan, lines 77-82.                                       *)
(***************************************************************************)
ScanWord_NoMembershipTest ==
    /\ pc = "vocab"
    /\ si <= Len(training_data)
    /\ wi <= Len(training_data[si][1])
    /\ LET word == training_data[si][1][wi]
       IN  word_to_ix' = [w \in DOMAIN word_to_ix \cup {word} |->
                            IF w = word THEN len(word_to_ix) ELSE word_to_ix[w]]
    /\ wi' = wi + 1
    /\ UNCHANGED <<pc, raised, training_data, si, loopVars, modelVars, dataVars, outVars>>

ScanWord ==
    /\ pc = "vocab"
    /\ si <= Len(training_data)
    /\ wi <= Len(training_data[si][1])
    /\ LET word == training_data[si][1][wi]
       IN  word_to_ix' = IF word \in DOMAIN word_to_ix
                         THEN word_to_ix
                         ELSE word_to_ix @@ (word :> len(word_to_ix))
    /\ wi' = wi + 1
    /\ UNCHANGED <<pc, raised, training_data, si, loopVars, modelVars, dataVars, outVars>>

ScanNextSentence ==
    /\ pc = "vocab"
    /\ si <= Len(training_data)
    /\ wi > Len(training_data[si][1])
    /\ si' = si + 1
    /\ wi' = 1
    /\ UNCHANGED <<pc, raised, training_data, word_to_ix, loopVars, modelVars, dataVars, outVars>>

ScanDone ==
    /\ pc = "vocab"
    /\ si > Len(training_data)
    /\ pc' = "new_model"
    /\ UNCHANGED <<raised, training_data, scanVars, loopVars, modelVars, dataVars, outVars>>

(***************************************************************************)
(* The framework objects, symbolically.                                    *)
(***************************************************************************)
NoModel == [built |-> FALSE]

\* The value of tag_scores and of loss before their first assignment.
NoScores == [model |-> "None"]

NoLoss == [scores |-> NoScores]

\* The zero (h, c) pair init_hidden returns.
init_hidden == <<>>

init_hiddenW == <<>>

init_hiddenC == <<>>

\* nn.LSTM applied to the input x from the hidden state h: the new hidden state.
lstm(params, x, h) == Append(h, [params |-> params, x |-> x])

\* LSTMTagger.__init__, lines 96-108.
LSTMTagger(vocab_size, tagset_size) ==
    [built |-> TRUE, params |-> 0, grad |-> <<>>, hidden |-> init_hidden,
     vocab_size |-> vocab_size, tagset_size |-> tagset_size]

\* LSTMTaggerWithChar.__init__, lines 188-198.
LSTMTaggerWithChar(vocab_size, char_size, tagset_size) ==
    [built |-> TRUE, params |-> 0, grad |-> <<>>,
     hiddenW |-> init_hiddenW, hiddenC |-> init_hiddenC,
     vocab_size |-> vocab_size, char_size |-> char_size, tagset_size |-> tagset_size]

\* LSTMTagger.forward, lines 116-122.  An index outside the embedding table
\* raises IndexError.  The LSTM starts from self.hidden and leaves its final
\* state in self.hidden.
forward(self, sentence) ==
    IF \E i \in DOMAIN sentence : sentence[i] >= self.vocab_size
    THEN [raised |-> "IndexError", self |-> self, out |-> <<>>]
    ELSE IF Len(sentence) = 0
    THEN [raised |-> "RuntimeError", self |-> self, out |-> <<>>]
    ELSE [raised |-> "None",
          self |-> [self EXCEPT !.hidden = lstm(self.params, sentence, self.hidden)],
          out |-> [model |-> "model", params |-> self.params, h0 |-> self.hidden,
                   x |-> sentence, rows |-> Len(sentence), cols |-> self.tagset_size]]

\* self.hiddenC after the first i iterations of the loop of lines 211-216.
RECURSIVE HiddenCAfter(_, _, _)
HiddenCAfter(self, inC, i) ==
    IF i = 0 THEN self.hiddenC
    ELSE lstm(self.params, inC[i], HiddenCAfter(self, inC, i - 1))

\* LSTMTaggerWithChar.forward, lines 208-224.
forward2(self, inW, inC) ==
    IF \E i \in DOMAIN inW : inW[i] >= self.vocab_size
    THEN [raised |-> "IndexError", self |-> self, out |-> <<>>, ListWCs |-> <<>>]
    ELSE IF \E i \in DOMAIN inC : \E k \in DOMAIN inC[i] : inC[i][k] >= self.char_size
    THEN [raised |-> "IndexError", self |-> self, out |-> <<>>, ListWCs |-> <<>>]
    ELSE IF Len(inW) = 0 \/ Len(inC) # Len(inW) \/ \E i \in DOMAIN inC : Len(inC[i]) = 0
    THEN [raised |-> "RuntimeError", self |-> self, out |-> <<>>, ListWCs |-> <<>>]
    ELSE LET WCs == [i \in DOMAIN inC |-> HiddenCAfter(self, inC, i)]
             NewWembeds == [i \in DOMAIN inW |-> <<inW[i], WCs[i]>>]
         IN  [raised |-> "None",
              self |-> [self EXCEPT !.hiddenC = HiddenCAfter(self, inC, Len(inC)),
                                    !.hiddenW = lstm(self.params, NewWembeds, self.hiddenW)],
              out |-> [model |-> "model2", params |-> self.params,
                       h0 |-> <<self.hiddenW, self.hiddenC>>,
                       x |-> NewWembeds, chars |-> inC, rows |-> Len(inW), cols |-> self.tagset_size],
              ListWCs |-> WCs]

\* nn.NLLLoss()(scores, tgt): one target below the number of classes per row.
loss_function(scores, tgt) ==
    IF Len(tgt) # scores.rows
    THEN [raised |-> "ValueError", val |-> <<>>]
    ELSE IF \E i \in DOMAIN tgt : tgt[i] >= scores.cols
    THEN [raised |-> "IndexError", val |-> <<>>]
    ELSE [raised |-> "None", val |-> [scores |-> scores, targets |-> tgt]]

\* Module.zero_grad().
zero_grad(m) == [m EXCEPT !.grad = <<>>]

\* loss.backward() as seen by model m (named name): the gradient of the loss
\* is added to the gradients of the model that computed the scores.
backward(m, name, l) ==
    IF l.scores.model = name THEN [m EXCEPT !.grad = Append(@, l)] ELSE m

\* optimizer.step() as seen by model m (named name); opt is the model whose
\* parameters the optimizer was built over.
step(m, name, opt) ==
    IF opt = name /\ m.grad # <<>> THEN [m EXCEPT !.params = @ + 1] ELSE m

\* An unhandled exception: the interpreter unwinds to the top and exits.
Crash(exc) ==
    /\ pc' = "crashed"
    /\ raised' = exc
    /\ UNCHANGED <<training_data, scanVars, loopVars, modelVars, dataVars, outVars>>

(***************************************************************************)
(* The first tagger: lines 128-171.                                        *)
(***************************************************************************)
NewModel ==
    /\ pc = "new_model"
    /\ model' = LSTMTagger(len(word_to_ix), len(tag_to_ix))
    /\ optimizer' = "model"
    /\ pc' = "pre_prepare"
    /\ UNCHANGED <<raised, training_data, scanVars, loopVars, model2, dataVars, outVars>>

PrePrepare ==
    /\ pc = "pre_prepare"
    /\ IF Len(training_data) = 0 THEN Crash("IndexError")
       ELSE LET r == prepare_sequence(training_data[1][1], word_to_ix)
            IN  IF r.raised THEN Crash("KeyError")
                ELSE /\ inputs' = r.val
                     /\ pc' = "pre_forward"
                     /\ UNCHANGED <<raised, training_data, scanVars, loopVars, modelVars,
                                    sentence_in, inputs_W, inputs_C, targets, outVars>>

PreForward ==
    /\ pc = "pre_forward"
    /\ LET f == forward(model, inputs)
       IN  IF f.raised # "None" THEN Crash(f.raised)
           ELSE /\ model' = f.self
                /\ tag_scores' = f.out
                /\ printed' = printed + 1
                /\ pc' = "for"
                /\ epoch' = 0
                /\ pair' = 1
                /\ log' = <<>>
                /\ UNCHANGED <<raised, training_data, scanVars, model2, optimizer,
                               dataVars, loss, ListWCs>>

NextInstance ==
    /\ pc = "for"
    /\ epoch < NumEpochs
    /\ pair <= Len(training_data)
    /\ pc' = "zero_grad"
    /\ UNCHANGED <<raised, training_data, scanVars, loopVars, modelVars, dataVars, outVars>>

NextEpoch ==
    /\ pc = "for"
    /\ epoch < NumEpochs
    /\ pair > Len(training_data)
    /\ epoch' = epoch + 1
    /\ pair' = 1
    /\ log' = <<>>
    /\ UNCHANGED <<pc, raised, training_data, scanVars, modelVars, dataVars, outVars>>

EndTraining ==
    /\ pc = "for"
    /\ epoch >= NumEpochs
    /\ pc' = "post_prepare"
    /\ UNCHANGED <<raised, training_data, scanVars, loopVars, modelVars, dataVars, outVars>>

ZeroGrad_Skipped ==
    /\ pc = "zero_grad"
    /\ pc' = "reset_hidden"
    /\ UNCHANGED <<raised, training_data, scanVars, loopVars, modelVars, dataVars, outVars>>

ZeroGrad ==
    /\ pc = "zero_grad"
    /\ model' = zero_grad(model)
    /\ pc' = "reset_hidden"
    /\ UNCHANGED <<raised, training_data, scanVars, loopVars, model2, optimizer,
                   dataVars, outVars>>

ResetHidden_Skipped ==
    /\ pc = "reset_hidden"
    /\ pc' = "prepare_sentence"
    /\ UNCHANGED <<raised, training_data, scanVars, loopVars, modelVars, dataVars, outVars>>

ResetHidden ==
    /\ pc = "reset_hidden"
    /\ model' = [model EXCEPT !.hidden = init_hidden]
    /\ pc' = "prepare_sentence"
    /\ UNCHANGED <<raised, training_data, scanVars, loopVars, model2, optimizer,
                   dataVars, outVars>>

PrepareSentence ==
    /\ pc = "prepare_sentence"
    /\ LET r == prepare_sequence(training_data[pair][1], word_to_ix)
       IN  IF r.raised THEN Crash("KeyError")
           ELSE /\ sentence_in' = r.val
                /\ pc' = "prepare_targets"
                /\ UNCHANGED <<raised, training_data, scanVars, loopVars, modelVars,
                               inputs, inputs_W, inputs_C, targets, outVars>>

PrepareTargets ==
    /\ pc = "prepare_targets"
    /\ LET r == prepare_sequence(training_data[pair][2], tag_to_ix)
       IN  IF r.raised THEN Crash("KeyError")
           ELSE /\ targets' = r.val
                /\ pc' = "forward"
                /\ UNCHANGED <<raised, training_data, scanVars, loopVars, modelVars,
                               inputs, sentence_in, inputs_W, inputs_C, outVars>>

Forward ==
    /\ pc = "forward"
    /\ LET f == forward(model, sentence_in)
       IN  IF f.raised # "None" THEN Crash(f.raised)
           ELSE /\ model' = f.self
                /\ tag_scores' = f.out
                /\ pc' = "loss"
                /\ UNCHANGED <<raised, training_data, scanVars, loopVars, model2, optimizer,
                               dataVars, loss, ListWCs, printed>>

Loss ==
    /\ pc = "loss"
    /\ LET l == loss_function(tag_scores, targets)
       IN  IF l.raised # "None" THEN Crash(l.raised)
           ELSE /\ loss' = l.val
                /\ pc' = "backward"
                /\ UNCHANGED <<raised, training_data, scanVars, loopVars, modelVars,
                               dataVars, tag_scores, ListWCs, printed>>

Backward ==
    /\ pc = "backward"
    /\ model' = backward(model, "model", loss)
    /\ model2' = IF model2.built THEN backward(model2, "model2", loss) ELSE model2
    /\ pc' = "step"
    /\ UNCHANGED <<raised, training_data, scanVars, loopVars, optimizer, dataVars, outVars>>

Step ==
    /\ pc = "step"
    /\ model' = step(model, "model", optimizer)
    /\ model2' = IF model2.built THEN step(model2, "model2", optimizer) ELSE model2
    /\ log' = Append(log, pair)
    /\ pair' = pair + 1
    /\ pc' = "for"
    /\ UNCHANGED <<raised, training_data, scanVars, epoch, optimizer, dataVars, outVars>>

PostPrepare ==
    /\ pc = "post_prepare"
    /\ IF Len(training_data) = 0 THEN Crash("IndexError")
       ELSE LET r == prepare_sequence(training_data[1][1], word_to_ix)
            IN  IF r.raised THEN Crash("KeyError")
                ELSE /\ inputs' = r.val
                     /\ pc' = "post_forward"
                     /\ UNCHANGED <<raised, training_data, scanVars, loopVars, modelVars,
                                    sentence_in, inputs_W, inputs_C, targets, outVars>>

PostForward ==
    /\ pc = "post_forward"
    /\ LET f == forward(model, inputs)
       IN  IF f.raised # "None" THEN Crash(f.raised)
           ELSE /\ model' = f.self
                /\ tag_scores' = f.out
                /\ printed' = printed + 1
                /\ pc' = "new_model2"
                /\ UNCHANGED <<raised, training_data, scanVars, loopVars, model2, optimizer,
                               dataVars, loss, ListWCs>>

(***************************************************************************)
(* The character-augmented tagger: lines 242-267.                          *)
(***************************************************************************)
NewModel2_OptimizerOverModel ==
    /\ pc = "new_model2"
    /\ model2' = LSTMTaggerWithChar(len(word_to_ix), Char_Size, len(tag_to_ix))
    /\ optimizer' = "model"
    /\ pc' = "pre_prepare_W"
    /\ UNCHANGED <<raised, training_data, scanVars, loopVars, model, dataVars, outVars>>

NewModel2 ==
    /\ pc = "new_model2"
    /\ model2' = LSTMTaggerWithChar(len(word_to_ix), Char_Size, len(tag_to_ix))
    /\ optimizer' = "model2"
    /\ pc' = "pre_prepare_W"
    /\ UNCHANGED <<raised, training_data, scanVars, loopVars, model, dataVars, outVars>>

PrePrepareW2 ==
    /\ pc = "pre_prepare_W"
    /\ IF Len(training_data) = 0 THEN Crash("IndexError")
       ELSE LET r == prepare_sequence(training_data[1][1], word_to_ix)
            IN  IF r.raised THEN Crash("KeyError")
                ELSE /\ inputs_W' = r.val
                     /\ pc' = "pre_prepare_C"
                     /\ UNCHANGED <<raised, training_data, scanVars, loopVars, modelVars,
                                    inputs, sentence_in, inputs_C, targets, outVars>>

PrePrepareC2 ==
    /\ pc = "pre_prepare_C"
    /\ LET r == prepare_char_squence(training_data[1][1], Char_to_ix)
       IN  IF r.raised THEN Crash("KeyError")
           ELSE /\ inputs_C' = r.val
                /\ pc' = "pre_forward2"
                /\ UNCHANGED <<raised, training_data, scanVars, loopVars, modelVars,
                               inputs, sentence_in, inputs_W, targets, outVars>>

PreForward2 ==
    /\ pc = "pre_forward2"
    /\ LET f == forward2(model2, inputs_W, inputs_C)
       IN  IF f.raised # "None" THEN Crash(f.raised)
           ELSE /\ model2' = f.self
                /\ tag_scores' = f.out
                /\ ListWCs' = f.ListWCs
                /\ printed' = printed + 1
                /\ pc' = "for2"
                /\ epoch' = 0
                /\ pair' = 1
                /\ log' = <<>>
                /\ UNCHANGED <<raised, training_data, scanVars, model, optimizer,
                               dataVars, loss>>

NextInstance2 ==
    /\ pc = "for2"
    /\ epoch < NumEpochs2
    /\ pair <= Len(training_data)
    /\ pc' = "zero_grad2"
    /\ UNCHANGED <<raised, training_data, scanVars, loopVars, modelVars, dataVars, outVars>>

NextEpoch2 ==
    /\ pc = "for2"
    /\ epoch < NumEpochs2
    /\ pair > Len(training_data)
    /\ epoch' = epoch + 1
    /\ pair' = 1
    /\ log' = <<>>
    /\ UNCHANGED <<pc, raised, training_data, scanVars, modelVars, dataVars, outVars>>

EndTraining2 ==
    /\ pc = "for2"
    /\ epoch >= NumEpochs2
    /\ pc' = "post_prepare_W"
    /\ UNCHANGED <<raised, training_data, scanVars, loopVars, modelVars, dataVars, outVars>>

ZeroGrad2 ==
    /\ pc = "zero_grad2"
    /\ model2' = zero_grad(model2)
    /\ pc' = "reset_hiddenC"
    /\ UNCHANGED <<raised, training_data, scanVars, loopVars, model, optimizer,
                   dataVars, outVars>>

ResetHiddenC2 ==
    /\ pc = "reset_hiddenC"
    /\ model2' = [model2 EXCEPT !.hiddenC = init_hiddenC]
    /\ pc' = "reset_hiddenW"
    /\ UNCHANGED <<raised, training_data, scanVars, loopVars, model, optimizer,
                   dataVars, outVars>>

ResetHiddenW2 ==
    /\ pc = "reset_hiddenW"
    /\ model2' = [model2 EXCEPT !.hiddenW = init_hiddenW]
    /\ pc' = "prepare_W"
    /\ UNCHANGED <<raised, training_data, scanVars, loopVars, model, optimizer,
                   dataVars, outVars>>

PrepareW2 ==
    /\ pc = "prepare_W"
    /\ LET r == prepare_sequence(training_data[pair][1], word_to_ix)
       IN  IF r.raised THEN Crash("KeyError")
           ELSE /\ inputs_W' = r.val
                /\ pc' = "prepare_C"
                /\ UNCHANGED <<raised, training_data, scanVars, loopVars, modelVars,
                               inputs, sentence_in, inputs_C, targets, outVars>>

PrepareC2 ==
    /\ pc = "prepare_C"
    /\ LET r == prepare_char_squence(training_data[pair][1], Char_to_ix)
       IN  IF r.raised THEN Crash("KeyError")
           ELSE /\ inputs_C' = r.val
                /\ pc' = "prepare_targets2"
                /\ UNCHANGED <<raised, training_data, scanVars, loopVars, modelVars,
                               inputs, sentence_in, inputs_W, targets, outVars>>

PrepareTargets2 ==
    /\ pc = "prepare_targets2"
    /\ LET r == prepare_sequence(training_data[pair][2], tag_to_ix)
       IN  IF r.raised THEN Crash("KeyError")
           ELSE /\ targets' = r.val
                /\ pc' = "forward2"
                /\ UNCHANGED <<raised, training_data, scanVars, loopVars, modelVars,
                               inputs, sentence_in, inputs_W, inputs_C, outVars>>

Forward2 ==
    /\ pc = "forward2"
    /\ LET f == forward2(model2, inputs_W, inputs_C)
       IN  IF f.raised # "None" THEN Crash(f.raised)
           ELSE /\ model2' = f.self
                /\ tag_scores' = f.out
                /\ ListWCs' = f.ListWCs
                /\ pc' = "loss2"
                /\ UNCHANGED <<raised, training_data, scanVars, loopVars, model, optimizer,
                               dataVars, loss, printed>>

Loss2 ==
    /\ pc = "loss2"
    /\ LET l == loss_function(tag_scores, targets)
       IN  IF l.raised # "None" THEN Crash(l.raised)
           ELSE /\ loss' = l.val
                /\ pc' = "backward2"
                /\ UNCHANGED <<raised, training_data, scanVars, loopVars, modelVars,
                               dataVars, tag_scores, ListWCs, printed>>

Backward2 ==
    /\ pc = "backward2"
    /\ model' = backward(model, "model", loss)
    /\ model2' = backward(model2, "model2", loss)
    /\ pc' = "step2"
    /\ UNCHANGED <<raised, training_data, scanVars, loopVars, optimizer, dataVars, outVars>>

Step2 ==
    /\ pc = "step2"
    /\ model' = step(model, "model", optimizer)
    /\ model2' = step(model2, "model2", optimizer)
    /\ log' = Append(log, pair)
    /\ pair' = pair + 1
    /\ pc' = "for2"
    /\ UNCHANGED <<raised, training_data, scanVars, epoch, optimizer, dataVars, outVars>>

PostPrepareW2 ==
    /\ pc = "post_prepare_W"
    /\ IF Len(training_data) = 0 THEN Crash("IndexError")
       ELSE LET r == prepare_sequence(training_data[1][1], word_to_ix)
            IN  IF r.raised THEN Crash("KeyError")
                ELSE /\ inputs_W' = r.val
                     /\ pc' = "post_prepare_C"
                     /\ UNCHANGED <<raised, training_data, scanVars, loopVars, modelVars,
                                    inputs, sentence_in, inputs_C, targets, outVars>>

PostPrepareC2 ==
    /\ pc = "post_prepare_C"
    /\ LET r == prepare_char_squence(training_data[1][1], Char_to_ix)
       IN  IF r.raised THEN Crash("KeyError")
           ELSE /\ inputs_C' = r.val
                /\ pc' = "post_forward2"
                /\ UNCHANGED <<raised, training_data, scanVars, loopVars, modelVars,
                               inputs, sentence_in, inputs_W, targets, outVars>>

PostForward2 ==
    /\ pc = "post_forward2"
    /\ LET f == forward2(model2, inputs_W, inputs_C)
       IN  IF f.raised # "None" THEN Crash(f.raised)
           ELSE /\ model2' = f.self
                /\ tag_scores' = f.out
                /\ ListWCs' = f.ListWCs
                /\ printed' = printed + 1
                /\ pc' = "done"
                /\ UNCHANGED <<raised, training_data, scanVars, loopVars, model, optimizer,
                               dataVars, loss>>

(***************************************************************************)
(* The script.                                                             *)
(***************************************************************************)
InitWith(data) ==
    /\ pc = "vocab"
    /\ raised = "None"
    /\ training_data = data
    /\ word_to_ix = <<>>
    /\ si = 1
    /\ wi = 1
    /\ epoch = 0
    /\ pair = 1
    /\ log = <<>>
    /\ model = NoModel
    /\ model2 = NoModel
    /\ optimizer = "None"
    /\ inputs = <<>>
    /\ sentence_in = <<>>
    /\ inputs_W = <<>>
    /\ inputs_C = <<>>
    /\ targets = <<>>
    /\ tag_scores = NoScores
    /\ loss = NoLoss
    /\ ListWCs = <<>>
    /\ printed = 0

Init == InitWith(TrainingData)

BuildVocabulary == ScanWord \/ ScanNextSentence \/ ScanDone

TrainModel ==
    \/ NewModel \/ PrePrepare \/ PreForward
    \/ NextInstance \/ NextEpoch \/ EndTraining
    \/ ZeroGrad \/ ResetHidden \/ PrepareSentence \/ PrepareTargets
    \/ Forward \/ Loss \/ Backward \/ Step
    \/ PostPrepare \/ PostForward

TrainModel2 ==
    \/ NewModel2 \/ PrePrepareW2 \/ PrePrepareC2 \/ PreForward2
    \/ NextInstance2 \/ NextEpoch2 \/ EndTraining2
    \/ ZeroGrad2 \/ ResetHiddenC2 \/ ResetHiddenW2
    \/ PrepareW2 \/ PrepareC2 \/ PrepareTargets2
    \/ Forward2 \/ Loss2 \/ Backward2 \/ Step2
    \/ PostPrepareW2 \/ PostPrepareC2 \/ PostForward2

Next == BuildVocabulary \/ TrainModel \/ TrainModel2

Spec == Init /\ [][Next]_vars

\* The interpreter runs the script to its end: it never pauses while a
\* statement is left to execute.
FairSpec == Spec /\ WF_vars(Next)

(***************************************************************************)
(* The vocabulary scan on any small corpus: two sentences of at most       *)
(* MaxLen words over three words, two of which differ only in case.        *)
(***************************************************************************)
MaxLen == 3

VocabWords == {w_The, w_the, w_dog}

Sentences == UNION {[1..k -> VocabWords] : k \in 0..MaxLen}

Tagged(sent) == <<sent, [i \in DOMAIN sent |-> "NN"]>>

Corpora == {<<Tagged(s1), Tagged(s2)>> : s1 \in Sentences, s2 \in Sentences}

InitVocab == \E data \in Corpora \cup {TrainingData} : InitWith(data)

SpecVocab == InitVocab /\ [][BuildVocabulary]_vars

(***************************************************************************)
(* The script on the training data with one token replaced by a token      *)
(* that the tag mapping or the character mapping does not hold.            *)
(***************************************************************************)
UnknownTag == "ADJ"

UnknownWord == <<"i", "t", "'", "s">>

Positions ==
    UNION {{<<p, k>> : k \in DOMAIN TrainingData[p][1]} : p \in DOMAIN TrainingData}

DataSets ==
    {TrainingData}
    \cup {[TrainingData EXCEPT ![q[1]][2][q[2]] = UnknownTag] : q \in Positions}
    \cup {[TrainingData EXCEPT ![q[1]][1][q[2]] = UnknownWord] : q \in Positions}

InitAnyData == \E data \in DataSets : InitWith(data)

SpecAnyData == InitAnyData /\ [][Next]_vars

(***************************************************************************)
(* Properties.                                                             *)
(***************************************************************************)
\* The words of the first k sentences, in order.
RECURSIVE WordsOf(_)
WordsOf(k) == IF k = 0 THEN <<>> ELSE WordsOf(k - 1) \o training_data[k][1]

\* The words the vocabulary scan has read so far.
Scanned ==
    IF si > Len(training_data) THEN WordsOf(Len(training_data))
    ELSE WordsOf(si - 1) \o SubSeq(training_data[si][1], 1, wi - 1)

FirstSeen(w, s) == CHOOSE i \in DOMAIN s : s[i] = w /\ \A j \in 1..(i - 1) : s[j] # w

DistinctBefore(w, s) == Cardinality({s[j] : j \in 1..(FirstSeen(w, s) - 1)})

C1_Mapping ==
    /\ DOMAIN word_to_ix = Range(Scanned)
    /\ \A w \in DOMAIN word_to_ix : word_to_ix[w] = DistinctBefore(w, Scanned)
    /\ \A v, w \in DOMAIN word_to_ix : word_to_ix[v] = word_to_ix[w] => v = w
    /\ {word_to_ix[w] : w \in DOMAIN word_to_ix} = 0..(len(word_to_ix) - 1)
    /\ \A w \in DOMAIN word_to_ix : len(word_to_ix) > word_to_ix[w]

C1_Stable ==
    \A w \in DOMAIN word_to_ix :
        w \in DOMAIN word_to_ix' /\ word_to_ix'[w] = word_to_ix[w]

\* C1: after any prefix of the vocabulary scan, word_to_ix maps exactly the
\* distinct (case-sensitive) words read so far one-to-one onto 0..N-1, the
\* index of a word is the number of distinct words read before its first
\* occurrence, len(word_to_ix) exceeds every index, and no step of the scan
\* changes an index it has assigned.
C1_FirstSeenOrder == [] C1_Mapping /\ [][C1_Stable]_vars

\* C1 witness: the scan has ended on a corpus in which a word was read more
\* than once and in which "The" and "the" both occur, with different indices.
C1_Witness ==
    /\ pc = "new_model"
    /\ Len(Scanned) > len(word_to_ix)
    /\ w_The \in DOMAIN word_to_ix
    /\ w_the \in DOMAIN word_to_ix
    /\ word_to_ix[w_The] # word_to_ix[w_the]
    /\ len(word_to_ix) = Cardinality(VocabWords)

Loop1Pcs == {"for", "zero_grad", "reset_hidden", "prepare_sentence", "prepare_targets",
             "forward", "loss", "backward", "step"}

Loop2Pcs == {"for2", "zero_grad2", "reset_hiddenC", "reset_hiddenW", "prepare_W",
             "prepare_C", "prepare_targets2", "forward2", "loss2", "backward2", "step2"}

AfterLoop1Pcs == {"post_prepare", "post_forward", "new_model2", "pre_prepare_W",
                  "pre_prepare_C", "pre_forward2"} \cup Loop2Pcs
                 \cup {"post_prepare_W", "post_prepare_C", "post_forward2", "done"}

AfterLoop2Pcs == {"post_prepare_W", "post_prepare_C", "post_forward2", "done"}

C2_Counts ==
    /\ log = [i \in 1..Len(log) |-> i]
    /\ Len(log) = pair - 1
    /\ pair <= Len(training_data) + 1
    /\ pc \in Loop1Pcs =>
          /\ epoch <= 300
          /\ pc # "for" => epoch < 300 /\ pair <= Len(training_data)
          /\ model.params = 2 * epoch + Len(log)
          /\ ~model2.built
    /\ (pc = "for" /\ epoch < 300 /\ pair > Len(training_data)) => log = <<1, 2>>
    /\ pc \in AfterLoop1Pcs => model.params = 600
    /\ pc \in {"post_prepare", "post_forward"} => epoch = 300 /\ log = <<>>
    /\ model2.built => printed >= 2 /\ model.params = 600
    /\ pc \in Loop2Pcs =>
          /\ epoch <= 300
          /\ pc # "for2" => epoch < 300 /\ pair <= Len(training_data)
          /\ model2.params = 2 * epoch + Len(log)
    /\ (pc = "for2" /\ epoch < 300 /\ pair > Len(training_data)) => log = <<1, 2>>
    /\ pc \in AfterLoop2Pcs => model2.params = 600 /\ epoch = 300 /\ log = <<>>

\* C2: each training loop runs exactly 300 epochs and ends; in every epoch the
\* optimizer steps once on pair 1 and then once on pair 2, which makes 600
\* steps per model; the character tagger is built and trained only after the
\* first tagger has been trained and evaluated; and the script reaches its end.
C2_FixedEpochs == [] C2_Counts /\ <>(pc = "done")

\* C2 witness: the script has ended, both models 600 updates from construction.
C2_Witness ==
    /\ pc = "done"
    /\ model.params = 600
    /\ model2.params = 600
    /\ epoch = 300

Params(m) == IF m.built THEN m.params ELSE -1

C6_Frame ==
    /\ (model.built /\ Params(model') # Params(model)) =>
          pc = "step" /\ pc' = "for" /\ optimizer = "model"
    /\ (model2.built /\ Params(model2') # Params(model2)) =>
          pc = "step2" /\ pc' = "for2" /\ optimizer = "model2"
    /\ pc \in {"step", "step2"} =>
          /\ optimizer = "model" => Params(model2') = Params(model2)
          /\ optimizer = "model2" => Params(model') = Params(model)
    /\ model2.built => Params(model') = Params(model)

\* C6: once a model is built its parameters change only in a step of the
\* optimizer that was built over them: no forward pass, zero_grad, hidden
\* reset, prepare call or evaluation changes a parameter, and nothing that
\* runs once the second model exists changes the first model's parameters.
C6_ParamsChangeOnlyInStep == [][C6_Frame]_vars

\* C6 witness: the second optimizer has stepped; the first model's parameters
\* are those its own training left.
C6_Witness ==
    /\ pc = "for2"
    /\ model2.params > 0
    /\ model.params = 600
    /\ model.grad # <<>>

MissingToken ==
    \/ /\ pc \in {"pre_prepare", "post_prepare", "pre_prepare_W", "post_prepare_W"}
       /\ \E i \in DOMAIN training_data[1][1] : training_data[1][1][i] \notin DOMAIN word_to_ix
    \/ /\ pc \in {"prepare_sentence", "prepare_W"}
       /\ \E i \in DOMAIN training_data[pair][1] :
             training_data[pair][1][i] \notin DOMAIN word_to_ix
    \/ /\ pc \in {"prepare_targets", "prepare_targets2"}
       /\ \E i \in DOMAIN training_data[pair][2] :
             training_data[pair][2][i] \notin DOMAIN tag_to_ix
    \/ /\ pc \in {"pre_prepare_C", "post_prepare_C"}
       /\ \E i \in DOMAIN training_data[1][1] : \E j \in DOMAIN training_data[1][1][i] :
             training_data[1][1][i][j] \notin DOMAIN Char_to_ix
    \/ /\ pc = "prepare_C"
       /\ \E i \in DOMAIN training_data[pair][1] : \E j \in DOMAIN training_data[pair][1][i] :
             training_data[pair][1][i][j] \notin DOMAIN Char_to_ix

C7_Step ==
    /\ pc # "crashed"
    /\ MissingToken =>
          /\ pc' = "crashed"
          /\ raised' = "KeyError"
          /\ UNCHANGED <<training_data, scanVars, loopVars, modelVars, dataVars, outVars>>

\* C7: a prepare_sequence or prepare_char_squence call on a sequence holding a
\* token that is no key of the mapping raises KeyError; the step ends the
\* script without assigning any index sequence or changing anything else, and
\* from the crashed state no statement runs.
C7_MissingTokenEndsScript == [][C7_Step]_vars

\* C7 witness: the script died of a KeyError in prepare_char_squence at line
\* 246, after the first tagger was trained, with inputs_C never assigned.
C7_Witness ==
    /\ pc = "crashed"
    /\ raised = "KeyError"
    /\ model.built /\ model.params = 600
    /\ model2.built /\ model2.params = 0
    /\ inputs_W # <<>>
    /\ inputs_C = <<>>
    /\ printed = 2

\* C8: when the forward pass of a training step starts, the hidden state of
\* the model (hidden; hiddenW and hiddenC) is the zero initial state.
C8_HiddenClearedBeforeInstance ==
    /\ pc = "forward" => model.hidden = init_hidden
    /\ pc = "forward2" => model2.hiddenW = init_hiddenW /\ model2.hiddenC = init_hiddenC

\* C8 witness: a training forward pass of the character tagger is about to
\* start, after an earlier training instance left hidden states behind.
C8_Witness ==
    /\ pc = "forward2"
    /\ model2.params > 0
    /\ tag_scores.model = "model2"
    /\ tag_scores.h0 = <<init_hiddenW, init_hiddenC>>
    /\ ListWCs # <<>>

C9_Grad ==
    /\ pc \in {"reset_hidden", "prepare_sentence", "prepare_targets", "forward",
               "loss", "backward"} => model.grad = <<>>
    /\ pc \in {"reset_hiddenC", "reset_hiddenW", "prepare_W", "prepare_C",
               "prepare_targets2", "forward2", "loss2", "backward2"} => model2.grad = <<>>
    /\ pc = "step" =>
          /\ model.grad = <<loss>>
          /\ loss.scores.model = "model"
          /\ loss.scores.params = model.params
          /\ loss.scores.x = prepare_sequence(training_data[pair][1], word_to_ix).val
          /\ loss.targets = prepare_sequence(training_data[pair][2], tag_to_ix).val
    /\ pc = "step2" =>
          /\ model2.grad = <<loss>>
          /\ loss.scores.model = "model2"
          /\ loss.scores.params = model2.params
          /\ loss.scores.chars = prepare_char_squence(training_data[pair][1], Char_to_ix).val
          /\ [i \in DOMAIN loss.scores.x |-> loss.scores.x[i][1]]
                = prepare_sequence(training_data[pair][1], word_to_ix).val
          /\ loss.targets = prepare_sequence(training_data[pair][2], tag_to_ix).val

C9_Order ==
    /\ pc = "zero_grad" => pc' = "reset_hidden"
    /\ pc = "reset_hidden" => pc' = "prepare_sentence"
    /\ pc = "prepare_sentence" => pc' = "prepare_targets"
    /\ pc = "prepare_targets" => pc' = "forward"
    /\ pc = "forward" => pc' = "loss"
    /\ pc = "loss" => pc' = "backward"
    /\ pc = "backward" => pc' = "step"
    /\ pc = "zero_grad2" => pc' = "reset_hiddenC"
    /\ pc = "reset_hiddenC" => pc' = "reset_hiddenW"
    /\ pc = "reset_hiddenW" => pc' = "prepare_W"
    /\ pc = "prepare_W" => pc' = "prepare_C"
    /\ pc = "prepare_C" => pc' = "prepare_targets2"
    /\ pc = "prepare_targets2" => pc' = "forward2"
    /\ pc = "forward2" => pc' = "loss2"
    /\ pc = "loss2" => pc' = "backward2"
    /\ pc = "backward2" => pc' = "step2"

\* C9: a training step runs zero_grad, the hidden reset, forward, loss,
\* backward and optimizer.step in this order; the gradient of the trained
\* model is empty from zero_grad up to loss.backward(), and when
\* optimizer.step() runs it holds the gradient of one loss only, that of the
\* current pair at the current parameters.
C9_OneInstancePerStep == [] C9_Grad /\ [][C9_Order]_vars

\* C9 witness: optimizer.step() is about to run on the second pair, after
\* earlier steps have been applied.
C9_Witness ==
    /\ pc = "step"
    /\ pair = 2
    /\ epoch >= 1
    /\ model.grad = <<loss>>

DataOk ==
    \A p \in DOMAIN training_data :
        LET sent == training_data[p][1]
            tags == training_data[p][2]
        IN  /\ Len(tags) = Len(sent)
            /\ \A i \in DOMAIN sent :
                  /\ sent[i] \in DOMAIN word_to_ix
                  /\ word_to_ix[sent[i]] < len(word_to_ix)
                  /\ \A j \in DOMAIN sent[i] :
                        /\ sent[i][j] \in DOMAIN Char_to_ix
                        /\ Char_to_ix[sent[i][j]] < Char_Size
            /\ \A i \in DOMAIN tags :
                  /\ tags[i] \in DOMAIN tag_to_ix
                  /\ tag_to_ix[tags[i]] < len(tag_to_ix)

\* C10: on the fixed training data the script never ends in an exception:
\* once the vocabulary is built every word, tag and character of the data is a
\* key of its mapping with an index below the size given to the matching
\* layer, every pair has as many tags as words, and the models are built with
\* exactly these sizes.
C10_NoErrorOnTrainingData ==
    /\ pc # "crashed"
    /\ raised = "None"
    /\ pc # "vocab" => DataOk
    /\ model.built =>
          model.vocab_size = len(word_to_ix) /\ model.tagset_size = len(tag_to_ix)
    /\ model2.built =>
          /\ model2.vocab_size = len(word_to_ix)
          /\ model2.char_size = Char_Size
          /\ model2.tagset_size = len(tag_to_ix)

\* C10 witness: the script has reached its end, past the final print.
C10_Witness ==
    /\ pc = "done"
    /\ raised = "None"
    /\ printed = 4
    /\ tag_scores.model = "model2"

\* C4: the tag scores a forward pass returns are those of the input sentence
\* and the parameter values alone, that is, those a call with the same input
\* and parameters returns on a model no earlier forward pass has left a state
\* in.
C4_ForwardIndependentOfEarlierCalls ==
    /\ tag_scores.model = "model" =>
          tag_scores = forward([model EXCEPT !.params = tag_scores.params,
                                             !.hidden = init_hidden],
                               [i \in DOMAIN tag_scores.x |-> tag_scores.x[i]]).out
    /\ tag_scores.model = "model2" =>
          tag_scores = forward2([model2 EXCEPT !.params = tag_scores.params,
                                               !.hiddenW = init_hiddenW,
                                               !.hiddenC = init_hiddenC],
                                [i \in DOMAIN tag_scores.x |-> tag_scores.x[i][1]],
                                tag_scores.chars).out

\* C5: the vector LSTMTaggerWithChar.forward concatenates to the embedding of
\* the i-th word is the final hidden state of the character LSTM run over the
\* characters of that word alone.
C5_CharVectorOfWordAlone ==
    tag_scores.model = "model2" =>
        /\ Len(ListWCs) = Len(tag_scores.chars)
        /\ \A i \in DOMAIN ListWCs :
              ListWCs[i] = lstm(tag_scores.params, tag_scores.chars[i], init_hiddenC)

====
